---- MODULE Spec2Model ----
(***************************************************************************)
(* Topology construction of universum (src/src/topology.rs):               *)
(* TryFrom<TomlTopology> for Topology, i.e. run_conf (the config           *)
(* resolver), the location check (the reference validator) and run_root    *)
(* (the tree builder).                                                     *)
(*                                                                         *)
(* Strings.  A Rust String is modelled as the sequence of its dot-free     *)
(* segments: "r2.s.s-1" is <<"r2","s","s-1">>, "" is <<"">>.  With that,   *)
(* format!("{}.{}",p,n) is exactly p \o n: a key that itself contains a    *)
(* dot ("a.b") is the two-segment string <<"a","b">>, so two different     *)
(* (parent,name) pairs can format to the same dotted path, as in Rust.     *)
(* Option<String>::None is the empty sequence, which is no string.         *)
(*                                                                         *)
(* Maps.  toml::Table and BTreeMap are functions from their keys, visited  *)
(* in key order (toml's Table is a BTreeMap unless its preserve_order      *)
(* feature is on; the crate does not ask for it).                          *)
(***************************************************************************)
EXTENDS Integers, Sequences, FiniteSets, TLC

\* ---------------------------------------------------------------- bounds
\* Ports used by well-formed locations are 1..MaxPort.
MaxPort == 2
\* Arrays of the shape section have at most MaxArrayLen elements.
MaxArrayLen == 2
\* Largest value of Location.port (u16).
U16Max == 65535

\* ---------------------------------------------------------------- strings
NoneS == <<>>
EmptyString == <<"">>

\* Byte order of the one-character segments used in keys.
Rank(s) == CASE s = "a" -> 1 [] s = "b" -> 2 [] s = "c" -> 3 [] OTHER -> 4

\* Ord for String, as BTreeMap uses it: lexicographic, a proper prefix first.
\* (Segments are single characters, so comparing segment by segment is
\* comparing byte by byte: '.' sorts before every letter.)
RECURSIVE StrLess(_, _)
StrLess(x, y) ==
    IF x = <<>> THEN y # <<>>
    ELSE IF y = <<>> THEN FALSE
    ELSE IF Head(x) = Head(y) THEN StrLess(Tail(x), Tail(y))
    ELSE Rank(Head(x)) < Rank(Head(y))

\* (mutant) iteration from the greatest key down.
LastKey(S) == CHOOSE k \in S : \A j \in S : j = k \/ StrLess(j, k)

\* First key of a non-empty map in iteration order.
FirstKey(S) == CHOOSE k \in S : \A j \in S : j = k \/ StrLess(k, j)

\* format!("{}.{}", parent, name)
Dot(parent, name) == parent \o name

\* (mutant) the prefix is forgotten.
NextParentFlat(parent, name) == name

\* match parent { None => name, Some(parent) => format!("{}.{}",parent,name) }
NextParent(parent, name) == IF parent = NoneS THEN name ELSE Dot(parent, name)

\* parent.clone().unwrap_or_else(||String::new())
UnwrapOrEmpty(parent) == IF parent = NoneS THEN EmptyString ELSE parent

\* ---------------------------------------------------------------- toml::Value
VString(s) == [kind |-> "String", s |-> s]
VInteger(i) == [kind |-> "Integer", i |-> i]
VBoolean(b) == [kind |-> "Boolean", b |-> b]
VArray(vs) == [kind |-> "Array", vs |-> vs]
VTable(t) == [kind |-> "Table", t |-> t]

\* A toml::Table / BTreeMap is a function from its keys.
EmptyMap == <<>>
MapRemove(m, k) == [x \in (DOMAIN m) \ {k} |-> m[x]]
MapInsert(m, k, v) == [x \in (DOMAIN m) \cup {k} |-> IF x = k THEN v ELSE m[x]]

\* ---------------------------------------------------------------- serde_json::Value
RECURSIVE toml_into_json(_)
toml_into_json(v) ==
    CASE v.kind = "String" -> [kind |-> "JString", s |-> v.s]
      [] v.kind = "Integer" -> [kind |-> "JNumber", i |-> v.i]
      [] v.kind = "Boolean" -> [kind |-> "JBool", b |-> v.b]
      [] v.kind = "Array" ->
            [kind |-> "JArray", vs |-> [i \in DOMAIN v.vs |-> toml_into_json(v.vs[i])]]
      [] v.kind = "Table" ->
            [kind |-> "JObject", t |-> [k \in DOMAIN v.t |-> toml_into_json(v.t[k])]]

\* ---------------------------------------------------------------- Location
Publicities == {<<"local">>, <<"internal">>, <<"external">>}

\* Does the value deserialize into a Location? host: String, port: u16,
\* publicity: Option<Publicity> (snake_case names); other keys are ignored.
LocationDecodes(v) ==
    /\ v.kind = "Table"
    /\ <<"host">> \in DOMAIN v.t
    /\ v.t[<<"host">>].kind = "String"
    /\ <<"port">> \in DOMAIN v.t
    /\ v.t[<<"port">>].kind = "Integer"
    /\ v.t[<<"port">>].i \in 0..U16Max
    /\ <<"publicity">> \in DOMAIN v.t =>
          /\ v.t[<<"publicity">>].kind = "String"
          /\ v.t[<<"publicity">>].s \in Publicities

\* loc.try_into() on a value that decodes.
DecodeLocation(v) ==
    [host |-> v.t[<<"host">>].s,
     port |-> v.t[<<"port">>].i,
     publicity |-> IF <<"publicity">> \in DOMAIN v.t
                   THEN v.t[<<"publicity">>].s ELSE NoneS]

\* ---------------------------------------------------------------- RunConf
RunConfNone == [kind |-> "None"]
Active(params, location) == [kind |-> "Active", params |-> params, location |-> location]
Passive(location) == [kind |-> "Passive", location |-> location]

\* ---------------------------------------------------------------- ParseError
ParseError(parent, name, error) == [parent |-> parent, name |-> name, error |-> error]
NoError == ParseError(NoneS, NoneS, <<"none">>)

\* ---------------------------------------------------------------- run_conf
ConfOk(map) == [ok |-> TRUE, map |-> map, err |-> NoError]
ConfErr(map, e) == [ok |-> FALSE, map |-> map, err |-> e]

\* fn run_conf: one turn of `for (name,v) in table` per unfolding; the map
\* is the accumulator threaded through the loop and the recursion.
RECURSIVE run_conf(_, _, _)
run_conf(parent, table, map) ==
    IF DOMAIN table = {} THEN ConfOk(map)
    ELSE
      LET name == FirstKey(DOMAIN table)
          v == table[name]
          rest == MapRemove(table, name)
      IN  IF v.kind = "Table"
          THEN
            LET hasPs == <<"params">> \in DOMAIN v.t
                hasLoc == <<"location">> \in DOMAIN v.t
                t == MapRemove(MapRemove(v.t, <<"params">>), <<"location">>)
            IN  CASE hasPs /\ hasLoc ->
                       IF LocationDecodes(v.t[<<"location">>])
                       THEN
                         LET c == Active(toml_into_json(v.t[<<"params">>]),
                                         DecodeLocation(v.t[<<"location">>]))
                             next_parent == NextParent(parent, name)
                             r == run_conf(next_parent, t, MapInsert(map, next_parent, c))
                         IN  IF r.ok THEN run_conf(parent, rest, r.map) ELSE r
                       ELSE ConfErr(map, ParseError(UnwrapOrEmpty(parent), name,
                                                    <<"invalid location">>))
                  [] hasPs /\ ~hasLoc ->
                       ConfErr(map, ParseError(UnwrapOrEmpty(parent), name,
                                               <<"conf 'location' is missed">>))
                  [] ~hasPs /\ hasLoc ->
                       ConfErr(map, ParseError(UnwrapOrEmpty(parent), name,
                                               <<"conf 'params' is missed">>))
                  [] OTHER ->
                       ConfErr(map, ParseError(UnwrapOrEmpty(parent), name,
                                               <<"conf 'location' and 'params' are missed">>))
          ELSE ConfErr(map, ParseError(UnwrapOrEmpty(parent), name,
                                       <<"unexpected value", v>>))

\* ---------------------------------------------------------------- location check
\* (mutant) every alias is taken as known.
contains_key_always(hosts, alias) == TRUE

\* hosts.contains_key(&location.host)
contains_key(hosts, alias) == alias \in DOMAIN hosts

\* (mutant) the key is the port alone.
ServiceKeyPortOnly(location) == <<location.port>>

\* (mutant) the publicity takes part in the key.
ServiceKeyWithPublicity(location) ==
    <<location.host, location.port, location.publicity>>

\* format!("{}:{}", location.host, location.port): a port prints as digits
\* only, so the text after the last ':' is the port and the text before it
\* the alias; the formatted key is the pair, whatever the alias contains.
ServiceKey(location) == <<location.host, location.port>>

\* (mutant) the owner of a binding is never recorded.
services_insert_nothing(services, s, name) == services

\* services.insert(s,name)
services_insert(services, s, name) == MapInsert(services, s, name)

\* The loop `for (name,c) in &conf` of try_from, in key order; `todo` are the
\* keys not yet visited, `services` the map from "host:port" to its first owner.
RECURSIVE check_locations(_, _, _, _)
check_locations(hosts, conf, todo, services) ==
    IF todo = {} THEN NoError
    ELSE
      LET name == FirstKey(todo)
          c == conf[name]
      IN  IF c.kind \in {"Active", "Passive"}
          THEN
            IF contains_key(hosts, c.location.host)
            THEN
              LET s == ServiceKey(c.location)
              IN  IF s \notin DOMAIN services
                  THEN check_locations(hosts, conf, todo \ {name},
                                       services_insert(services, s, name))
                  ELSE ParseError(<<"config">>, name,
                                  <<"duplicate service", c.location.host,
                                    c.location.port, services[s]>>)
            ELSE ParseError(<<"config">>, name, <<"unknown host", c.location.host>>)
          ELSE check_locations(hosts, conf, todo \ {name}, services)

\* ---------------------------------------------------------------- TopologyNode
Terminal == [kind |-> "Terminal", children |-> <<>>]
NodeOf(children) == [kind |-> "Node", children |-> children]
TopologyNode(name, parent, config, node_type) ==
    [name |-> name, parent |-> parent, config |-> config, node_type |-> node_type]

\* ---------------------------------------------------------------- run_root
RootOk(nodes, confs) == [ok |-> TRUE, nodes |-> nodes, confs |-> confs, err |-> NoError]
RootErr(e) == [ok |-> FALSE, nodes |-> <<>>, confs |-> EmptyMap, err |-> e]

\* (mutant) the entry is read and left in the map.
confs_remove_keep(confs, n) == confs

\* confs.remove(&n), once the key is known to be present.
confs_remove(confs, n) == MapRemove(confs, n)

\* (mutant) the new terminal node goes to the front.
PushFront(tps, node) == <<node>> \o tps

\* tps.push(node)
Push(tps, node) == Append(tps, node)

\* (mutant) the terminal node gets the enclosing prefix as its parent.
LeafNodeOfPrefix(parent, p, n, config) == TopologyNode(n, parent, config, Terminal)

\* TopologyNode { config, name: Some(n), parent: Some(p), node_type: Terminal }
LeafNode(parent, p, n, config) == TopologyNode(n, p, config, Terminal)

\* (mutant) the error names the group, as the other arms do.
MissedLeafAsGroup(parent, name, p, s) ==
    ParseError(UnwrapOrEmpty(parent), name, <<"missed config">>)

\* ParseError { parent: p, name: s, error: "missed config" }
MissedLeaf(parent, name, p, s) == ParseError(p, s, <<"missed config">>)

\* (mutant) a table key of the shape section becomes a node of its own.
TableNodesNested(parent, next_parent, sub) ==
    <<TopologyNode(next_parent, parent, RunConfNone, NodeOf(sub))>>

\* nodes.extend(run_root(&Some(next_parent),t,confs)?): the nodes of a nested
\* table are spliced into the list; the table key adds no node.
TableNodes(parent, next_parent, sub) == sub

\* The inner loop `for v in vs` of run_root's Array arm: `tps` are the
\* terminal nodes pushed so far.
RECURSIVE run_array(_, _, _, _, _)
run_array(parent, name, vs, confs, tps) ==
    IF vs = <<>> THEN RootOk(tps, confs)
    ELSE
      LET v == Head(vs)
      IN  IF v.kind = "String"
          THEN
            LET p == NextParent(parent, name)
                n == Dot(p, v.s)
            IN  IF n \in DOMAIN confs
                THEN run_array(parent, name, Tail(vs), confs_remove(confs, n),
                               Push(tps, LeafNode(parent, p, n, confs[n])))
                ELSE RootErr(MissedLeaf(parent, name, p, v.s))
          ELSE RootErr(ParseError(UnwrapOrEmpty(parent), name, <<"unexpected value", v>>))

\* fn run_root: one turn of `for (name,v) in table` per unfolding.
RECURSIVE run_root(_, _, _)
run_root(parent, table, confs) ==
    IF DOMAIN table = {} THEN RootOk(<<>>, confs)
    ELSE
      LET name == FirstKey(DOMAIN table)
          v == table[name]
          rest == MapRemove(table, name)
      IN  CASE v.kind = "Table" ->
                 LET r == run_root(NextParent(parent, name), v.t, confs)
                 IN  IF r.ok
                     THEN LET q == run_root(parent, rest, r.confs)
                          IN  IF q.ok
                              THEN RootOk(TableNodes(parent, NextParent(parent, name),
                                                     r.nodes) \o q.nodes, q.confs)
                              ELSE q
                     ELSE r
            [] v.kind = "Array" ->
                 LET a == run_array(parent, name, v.vs, confs, <<>>)
                     n == NextParent(parent, name)
                 IN  IF ~a.ok THEN a
                     ELSE IF n \in DOMAIN a.confs
                     THEN LET node == TopologyNode(n, parent, a.confs[n], NodeOf(a.nodes))
                              q == run_root(parent, rest, confs_remove(a.confs, n))
                          IN  IF q.ok THEN RootOk(<<node>> \o q.nodes, q.confs) ELSE q
                     ELSE RootErr(ParseError(UnwrapOrEmpty(parent), name,
                                             <<"missed config">>))
            [] OTHER ->
                 RootErr(ParseError(UnwrapOrEmpty(parent), name, <<"unexpected value", v>>))

\* ---------------------------------------------------------------- Topology
Host(host, port) == [host |-> host, port |-> port]
Topology(hosts, nodes) ==
    [hosts |-> hosts,
     root |-> TopologyNode(NoneS, NoneS, RunConfNone, NodeOf(nodes))]

Pending == [kind |-> "Pending", topology |-> Topology(EmptyMap, <<>>), err |-> NoError]
Ok(t) == [kind |-> "Ok", topology |-> t, err |-> NoError]
Err(e) == [kind |-> "Err", topology |-> Topology(EmptyMap, <<>>), err |-> e]

\* ---------------------------------------------------------------- input documents
Aliases == {<<"h1">>, <<"h2">>}
Ports == 1..MaxPort

LocTable(h, p) == VTable((<<"host">> :> VString(h)) @@ (<<"port">> :> VInteger(p)))
LocTablePub(h, p, pub) ==
    VTable((<<"host">> :> VString(h)) @@ (<<"port">> :> VInteger(p))
           @@ (<<"publicity">> :> VString(pub)))
ParamsP == VTable(<<"mode">> :> VString(<<"p">>))

\* The reserved keys of one config scope: none, one of the two, both with a
\* location that does not decode (port beyond u16), both well formed.
Cores ==
    {EmptyMap,
     <<"params">> :> ParamsP,
     <<"location">> :> LocTable(<<"h1">>, 1),
     (<<"params">> :> ParamsP) @@ (<<"location">> :> LocTable(<<"h1">>, U16Max + 1))}
    \cup {(<<"params">> :> ParamsP) @@ (<<"location">> :> LocTable(h, p)) :
            h \in Aliases, p \in Ports}

\* A config value: a scalar, or a table made of a core and nested scopes.
ConfValues(children) ==
    {VInteger(1)} \cup {VTable(core @@ ch) : core \in Cores, ch \in children}

\* The tables holding key k or not.
OptKey(k, vals) == {EmptyMap} \cup {k :> v : v \in vals}

ConfLeafValues == ConfValues({EmptyMap})
ConfBValues == ConfValues(OptKey(<<"c">>, ConfLeafValues))
ConfAValues ==
    ConfValues({tb @@ tc : tb \in OptKey(<<"b">>, ConfBValues),
                           tc \in OptKey(<<"c">>, ConfLeafValues)})
\* The top-level key "a.b" (a quoted key) formats to the path of a -> b.
ConfDottedValues ==
    {VTable((<<"params">> :> ParamsP) @@ (<<"location">> :> LocTable(h, p))) :
        h \in Aliases, p \in Ports}
    \cup {VTable((<<"params">> :> ParamsP)
                 @@ (<<"location">> :> LocTablePub(<<"h1">>, 1, <<"internal">>)))}

ConfigDocs ==
    {ta @@ tab : ta \in OptKey(<<"a">>, ConfAValues),
                 tab \in OptKey(<<"a", "b">>, ConfDottedValues)}

HostTables ==
    {[h \in D |-> Host(h \o <<"local">>, 25000)] : D \in {{<<"h1">>}, Aliases}}

\* Arrays of at most MaxArrayLen elements of S.
ArraysOf(S) == {VArray(vs) : vs \in UNION {[1..k -> S] : k \in 0..MaxArrayLen}}

ShapeBValues ==
    {VInteger(1)} \cup ArraysOf({VString(<<"c">>), VInteger(1)})
    \cup {VTable(EmptyMap), VTable(<<"c">> :> VArray(<<>>))}
ShapeAValues ==
    {VInteger(1)}
    \cup ArraysOf({VString(<<"b">>), VString(<<"c">>), VInteger(1)})
    \cup {VTable(tb @@ tc) : tb \in OptKey(<<"b">>, ShapeBValues),
                             tc \in OptKey(<<"c">>, {VArray(<<>>)})}
ShapeDocs ==
    {ta @@ tab : ta \in OptKey(<<"a">>, ShapeAValues),
                 tab \in OptKey(<<"a", "b">>,
                                {VArray(<<>>), VArray(<<VString(<<"c">>)>>)})}

\* ---------------------------------------------------------------- state
\* t_config, t_hosts, t_root: the fields of the TomlTopology given to
\* try_from.  t_config is moved into run_conf; t_root is read by run_root only
\* and is drawn when it is read.  conf: the flattened config map.
VARIABLES pc, t_config, t_hosts, t_root, conf, result
vars == <<pc, t_config, t_hosts, t_root, conf, result>>

Moved == [kind |-> "Moved", t |-> EmptyMap]
Unread == [kind |-> "Unread", t |-> EmptyMap]

Init ==
    /\ pc = "run_conf"
    /\ t_config \in {VTable(d) : d \in ConfigDocs}
    /\ t_hosts \in HostTables
    /\ t_root = Unread
    /\ conf = EmptyMap
    /\ result = Pending

\* let mut conf = BTreeMap::new(); run_conf(&None,t.config,&mut conf)?;
RunConf ==
    /\ pc = "run_conf"
    /\ LET r == run_conf(NoneS, t_config.t, EmptyMap)
       IN  IF r.ok
           THEN /\ conf' = r.map
                /\ pc' = "check"
                /\ result' = result
           ELSE /\ conf' = EmptyMap
                /\ pc' = "done"
                /\ result' = Err(r.err)
    /\ t_config' = Moved
    /\ UNCHANGED <<t_hosts, t_root>>

\* // check locations
CheckLocations ==
    /\ pc = "check"
    /\ LET e == check_locations(t_hosts, conf, DOMAIN conf, EmptyMap)
       IN  IF e = NoError
           THEN /\ pc' = "run_root"
                /\ conf' = conf
                /\ result' = result
           ELSE /\ pc' = "done"
                /\ conf' = EmptyMap
                /\ result' = Err(e)
    /\ UNCHANGED <<t_config, t_hosts, t_root>>

\* let root = run_root(&None,t.root,&mut conf)?; Ok(Topology{ .. })
\* On success conf keeps what run_root left in the map.
RunRoot ==
    /\ pc = "run_root"
    /\ \E shape \in ShapeDocs :
         /\ t_root' = VTable(shape)
         /\ LET r == run_root(NoneS, shape, conf)
            IN  IF r.ok
                THEN /\ result' = Ok(Topology(t_hosts, r.nodes))
                     /\ conf' = r.confs
                ELSE /\ result' = Err(r.err)
                     /\ conf' = EmptyMap
    /\ pc' = "done"
    /\ UNCHANGED <<t_config, t_hosts>>

Next == RunConf \/ CheckLocations \/ RunRoot

Spec == Init /\ [][Next]_vars

\* ================================================================ claims
SeqToSet(s) == {s[i] : i \in DOMAIN s}

Succeeded == pc = "done" /\ result.kind = "Ok"
Failed == pc = "done" /\ result.kind = "Err"
RootChildren == result.topology.root.node_type.children

\* The nodes below n, at any depth.
RECURSIVE Descendants(_)
Descendants(n) ==
    UNION {{c} \cup Descendants(c) : c \in SeqToSet(n.node_type.children)}

\* The non-root nodes of the constructed tree.
TreeNodes == Descendants(result.topology.root)

HasLocation(c) == c.kind \in {"Active", "Passive"}
BindingOf(c) == <<c.location.host, c.location.port>>

\* C1: after a successful construction, the host alias of the location of
\* every node of the tree (root included) is a key of Topology.hosts.
C1_HostsResolve ==
    Succeeded =>
        \A n \in TreeNodes \cup {result.topology.root} :
            HasLocation(n.config) =>
                n.config.location.host \in DOMAIN result.topology.hosts

\* A successful construction whose tree holds a group and a leaf, located on
\* two different hosts.
C1_Witness ==
    /\ Succeeded
    /\ \E n, m \in TreeNodes :
         /\ n.node_type.kind = "Node" /\ m.node_type.kind = "Terminal"
         /\ HasLocation(n.config) /\ HasLocation(m.config)
         /\ n.config.location.host # m.config.location.host

\* C2: after a successful construction, two nodes of the tree with different
\* dotted names never carry the same (location.host, location.port).
C2_BindingsUnique ==
    Succeeded =>
        \A n, m \in TreeNodes :
            (n.name # m.name /\ HasLocation(n.config) /\ HasLocation(m.config))
                => BindingOf(n.config) # BindingOf(m.config)

\* A successful construction with three nodes, two of them on the same host
\* and two of them on the same port.
C2_Witness ==
    /\ Succeeded
    /\ \E n, m, k \in TreeNodes :
         /\ n.name # m.name /\ m.name # k.name /\ n.name # k.name
         /\ n.config.location.host = m.config.location.host
         /\ n.config.location.port # m.config.location.port
         /\ m.config.location.host # k.config.location.host
         /\ m.config.location.port = k.config.location.port

\* ---------------------------------------------------------------- C3, C4
\* The entries of a flattened map that carry a location.
Located(m) == {n \in DOMAIN m : HasLocation(m[n])}

\* Two different paths of the map are assigned the same (host, port).
HasDuplicate(m) ==
    \E x, y \in Located(m) : x # y /\ BindingOf(m[x]) = BindingOf(m[y])

\* The paths that repeat the (host, port) of a path before them in path order.
Repeating(m) ==
    {x \in Located(m) :
        \E y \in Located(m) : StrLess(y, x) /\ BindingOf(m[x]) = BindingOf(m[y])}

\* The paths whose alias is no key of hosts.
UnknownPaths(m, hosts) == {x \in Located(m) : m[x].location.host \notin DOMAIN hosts}

\* The least path of a non-empty set, in path order.
Least(S) == CHOOSE x \in S : \A y \in S : y = x \/ StrLess(x, y)

IsDuplicateError(r) == r.kind = "Err" /\ r.err.error[1] = "duplicate service"
IsUnknownHostError(r) == r.kind = "Err" /\ r.err.error[1] = "unknown host"

\* C3 as stated: whenever two different paths of the resolved config map share
\* a (host, port), construction ends with the duplicate-service error.
C3_Original ==
    [][(pc = "check" /\ HasDuplicate(conf))
         => (pc' = "done" /\ IsDuplicateError(result'))]_vars

\* C3 as amended: when the config section resolves and two different paths
\* share a (host, port), construction fails; the error is the
\* duplicate-service error, naming the first path in path order that repeats
\* an earlier path's pair together with that pair and its first owner, unless
\* a path with an unknown alias comes before it, and then it is the
\* unknown-host error.
C3_DuplicateRejected ==
    [][(pc = "check" /\ HasDuplicate(conf)) =>
         /\ pc' = "done"
         /\ result'.kind = "Err"
         /\ result'.err.parent = <<"config">>
         /\ LET d == Least(Repeating(conf))
            IN  IF \E u \in UnknownPaths(conf, t_hosts) : StrLess(u, d)
                THEN IsUnknownHostError(result')
                ELSE /\ IsDuplicateError(result')
                     /\ result'.err.name = d
                     /\ result'.err.error[2] = conf[d].location.host
                     /\ result'.err.error[3] = conf[d].location.port
                     /\ result'.err.error[4] =
                          Least({y \in Located(conf) :
                                   BindingOf(conf[y]) = BindingOf(conf[d])})]_vars

\* A construction that ended with the duplicate-service error.
C3_Witness == Failed /\ IsDuplicateError(result)

\* C4 as stated: whenever an entry of the resolved config map has an alias
\* that is no key of hosts, construction ends with the unknown-host error
\* naming the path of such an entry.
C4_Original ==
    [][(pc = "check" /\ UnknownPaths(conf, t_hosts) # {}) =>
         /\ pc' = "done"
         /\ IsUnknownHostError(result')
         /\ result'.err.name \in UnknownPaths(conf, t_hosts)]_vars

\* C4 as amended: when the config section resolves and some entry's alias is
\* no key of hosts, construction fails; the error is the unknown-host error,
\* naming the first such path in path order and its alias, unless a path
\* repeating an earlier path's (host, port) comes before it, and then it is
\* the duplicate-service error.
C4_UnknownHostRejected ==
    [][(pc = "check" /\ UnknownPaths(conf, t_hosts) # {}) =>
         /\ pc' = "done"
         /\ result'.kind = "Err"
         /\ result'.err.parent = <<"config">>
         /\ LET u == Least(UnknownPaths(conf, t_hosts))
            IN  IF \E d \in Repeating(conf) : StrLess(d, u)
                THEN IsDuplicateError(result')
                ELSE /\ IsUnknownHostError(result')
                     /\ result'.err.name = u
                     /\ result'.err.error[2] = conf[u].location.host]_vars

\* A construction that ended with the unknown-host error for a path below
\* the top level.
C4_Witness == Failed /\ IsUnknownHostError(result) /\ Len(result.err.name) > 1

\* ---------------------------------------------------------------- C5 .. C9
\* The array-shaped entries of a shape table, each with the dotted prefix it
\* is declared under (NoneS at the top level), its key and its elements.
RECURSIVE ShapeGroups(_, _)
ShapeGroups(prefix, table) ==
    UNION {CASE table[k].kind = "Array" ->
                  {[prefix |-> prefix, key |-> k, vs |-> table[k].vs]}
             [] table[k].kind = "Table" -> ShapeGroups(prefix \o k, table[k].t)
             [] OTHER -> {}
           : k \in DOMAIN table}

\* The dotted paths of the table-shaped entries of a shape table.
RECURSIVE ShapeTablePaths(_, _)
ShapeTablePaths(prefix, table) ==
    UNION {IF table[k].kind = "Table"
           THEN {prefix \o k} \cup ShapeTablePaths(prefix \o k, table[k].t)
           ELSE {}
           : k \in DOMAIN table}

RECURSIVE OnlyTables(_)
OnlyTables(table) ==
    \A k \in DOMAIN table : table[k].kind = "Table" /\ OnlyTables(table[k].t)

\* The step of run_root that ends a successful construction.
BuildSucceeds == pc = "run_root" /\ pc' = "done" /\ result'.kind = "Ok"

\* C5: after a successful construction, for every array-shaped entry
\* k = [s1..sn] under prefix P, exactly one node of the tree is named P.k; it
\* is a child of the root of kind Node carrying the config the map held under
\* P.k, and its children are n Terminal nodes named P.k.s1 .. P.k.sn in array
\* order, each carrying the config the map held under its own name.
C5_GroupNode ==
    [][BuildSucceeds =>
         \A g \in ShapeGroups(NoneS, t_root'.t) :
            LET name == g.prefix \o g.key
                at == {i \in DOMAIN RootChildren' : RootChildren'[i].name = name}
            IN  /\ Cardinality(at) = 1
                /\ Cardinality({n \in TreeNodes' : n.name = name}) = 1
                /\ \A i \in at :
                     LET node == RootChildren'[i]
                         kids == node.node_type.children
                     IN  /\ node.node_type.kind = "Node"
                         /\ node.config = conf[name]
                         /\ Len(kids) = Len(g.vs)
                         /\ \A j \in DOMAIN kids :
                              /\ kids[j].node_type.kind = "Terminal"
                              /\ kids[j].name = name \o g.vs[j].s
                              /\ kids[j].name # name
                              /\ kids[j].config = conf[kids[j].name]]_vars

\* A successful construction from a shape with a group of two leaves that
\* are not declared in key order.
C5_Witness ==
    /\ Succeeded
    /\ \E g \in ShapeGroups(NoneS, t_root.t) :
         Len(g.vs) = 2 /\ g.vs[1] = VString(<<"c">>) /\ g.vs[2] = VString(<<"b">>)

\* C6: when a construction succeeds, the same construction with the map
\* entry of one declared leaf P.k.si taken away (the entries of its siblings
\* and of its group kept) still passes the location check and then fails in
\* run_root with "missed config", parent P.k and name si.
C6_MissingLeafNamed ==
    [][BuildSucceeds =>
         \A g \in ShapeGroups(NoneS, t_root'.t) :
            \A j \in DOMAIN g.vs :
               LET p == g.prefix \o g.key
                   less == MapRemove(conf, p \o g.vs[j].s)
               IN  /\ check_locations(t_hosts, less, DOMAIN less, EmptyMap) = NoError
                   /\ run_root(NoneS, t_root'.t, less)
                        = RootErr(ParseError(p, g.vs[j].s, <<"missed config">>))]_vars

\* A successful construction with a group of two leaves: each leaf has a
\* sibling and a group whose entries stay.
C6_Witness ==
    /\ Succeeded
    /\ \E n \in TreeNodes : Len(n.node_type.children) = 2

\* C7 as stated: after a successful construction, the parent field of every
\* non-root node is the name of its parent in the tree, and its name is that
\* path followed by one more segment.
C7_Original ==
    Succeeded =>
        \A q \in TreeNodes \cup {result.topology.root} :
            \A n \in SeqToSet(q.node_type.children) :
                /\ n.parent = q.name
                /\ Len(n.name) = Len(n.parent) + 1
                /\ SubSeq(n.name, 1, Len(n.parent)) = n.parent

\* C7 as amended: after a successful construction, every child of the root
\* is the node of an array-shaped entry: its parent field is the dotted path
\* of the shape tables enclosing that entry (None at the top level; these
\* tables are no nodes of the tree) and its name is that path followed by the
\* entry's key; every node below it has the group's name as its parent field
\* and that name followed by its own array string as its name.
C7_Names ==
    Succeeded =>
        \A g \in SeqToSet(RootChildren) :
            \E e \in ShapeGroups(NoneS, t_root.t) :
                /\ g.parent = e.prefix
                /\ g.name = e.prefix \o e.key
                /\ Len(g.node_type.children) = Len(e.vs)
                /\ \A j \in DOMAIN e.vs :
                     /\ g.node_type.children[j].parent = g.name
                     /\ g.node_type.children[j].name = g.name \o e.vs[j].s

\* A successful construction with a group declared inside a shape table,
\* holding a leaf.
C7_Witness ==
    /\ Succeeded
    /\ \E g \in SeqToSet(RootChildren) :
         g.parent # NoneS /\ g.node_type.children # <<>>

\* The number of nodes in a list of groups: the groups and their leaves.
RECURSIVE NodeCount(_)
NodeCount(nodes) ==
    IF nodes = <<>> THEN 0
    ELSE 1 + Len(Head(nodes).node_type.children) + NodeCount(Tail(nodes))

\* C8 as stated: in a successful construction every table-shaped and every
\* array-shaped entry of the shape section, at path P.k, has an entry under
\* P.k in the map that run_root removes.
C8_Original ==
    [][BuildSucceeds =>
         \A path \in ShapeTablePaths(NoneS, t_root'.t)
                     \cup {g.prefix \o g.key : g \in ShapeGroups(NoneS, t_root'.t)} :
             path \in DOMAIN conf /\ path \notin DOMAIN conf']_vars

\* C8 as amended: in a successful construction every array-shaped entry of
\* the shape section, at path P.k, has an entry under P.k in the map that
\* run_root removes; the entries removed are exactly those under the names of
\* the tree's nodes (the groups and their leaves), one removal per node, and
\* every other entry, those of table-shaped entries included, is left in the
\* map unchanged.
C8_Consumed ==
    [][BuildSucceeds =>
         /\ \A g \in ShapeGroups(NoneS, t_root'.t) :
               /\ g.prefix \o g.key \in DOMAIN conf
               /\ g.prefix \o g.key \notin DOMAIN conf'
         /\ DOMAIN conf' \subseteq DOMAIN conf
         /\ \A k \in DOMAIN conf' : conf'[k] = conf[k]
         /\ (DOMAIN conf) \ (DOMAIN conf') = {n.name : n \in TreeNodes'}
         /\ Cardinality((DOMAIN conf) \ (DOMAIN conf')) = NodeCount(RootChildren')]_vars

\* A successful construction from a shape with a table-shaped entry whose
\* own config entry is left in the map, and with nodes built.
C8_Witness ==
    /\ Succeeded
    /\ TreeNodes # {}
    /\ \E path \in ShapeTablePaths(NoneS, t_root.t) : path \in DOMAIN conf

\* C9 as stated: for a shape of tables only whose table paths are the paths
\* of the config map, construction succeeds, the names of the tree's nodes
\* are exactly the paths of the map, and nothing is left in the map.
C9_Original ==
    [][(pc = "run_root" /\ OnlyTables(t_root'.t)
          /\ ShapeTablePaths(NoneS, t_root'.t) = DOMAIN conf) =>
         /\ result'.kind = "Ok"
         /\ {n.name : n \in TreeNodes'} = DOMAIN conf
         /\ conf' = EmptyMap]_vars

\* C9 as amended: for a shape of tables only whose table paths are the paths
\* of the config map, construction succeeds with a root that has no
\* children, so the names collected from the tree are the empty set, and
\* every entry of the config map is left over in the map.
C9_TablesOnly ==
    [][(pc = "run_root" /\ OnlyTables(t_root'.t)
          /\ ShapeTablePaths(NoneS, t_root'.t) = DOMAIN conf) =>
         /\ result'.kind = "Ok"
         /\ RootChildren' = <<>>
         /\ {n.name : n \in TreeNodes'} = {}
         /\ conf' = conf]_vars

\* A successful construction from a shape of nested tables only, declared
\* over the paths of a non-empty config map.
C9_Witness ==
    /\ Succeeded
    /\ OnlyTables(t_root.t)
    /\ ShapeTablePaths(NoneS, t_root.t) = DOMAIN conf
    /\ Cardinality(DOMAIN conf) = 2

\* ---------------------------------------------------------------- C10
HasBoth(v) ==
    v.kind = "Table" /\ <<"params">> \in DOMAIN v.t /\ <<"location">> \in DOMAIN v.t
Resolves(v) == HasBoth(v) /\ LocationDecodes(v.t[<<"location">>])

\* What is left of a config table once params and location are taken out.
Scope(v) == [k \in (DOMAIN v.t) \ {<<"params">>, <<"location">>} |-> v.t[k]]

\* Every key/value of a config table, at any depth, with its dotted prefix.
RECURSIVE AllEntries(_, _)
AllEntries(prefix, table) ==
    UNION {{[prefix |-> prefix, key |-> k, v |-> table[k]]}
           \cup (IF table[k].kind = "Table"
                 THEN AllEntries(prefix \o k, Scope(table[k])) ELSE {})
           : k \in DOMAIN table}

\* The key/values whose enclosing config tables all resolve.
RECURSIVE Entries(_, _)
Entries(prefix, table) ==
    UNION {{[prefix |-> prefix, key |-> k, v |-> table[k]]}
           \cup (IF Resolves(table[k])
                 THEN Entries(prefix \o k, Scope(table[k])) ELSE {})
           : k \in DOMAIN table}

\* The message run_conf owes to a key/value that does not resolve.
ExpectedError(v) ==
    CASE v.kind # "Table" -> "unexpected value"
      [] HasBoth(v) -> "invalid location"
      [] <<"params">> \in DOMAIN v.t -> "conf 'location' is missed"
      [] <<"location">> \in DOMAIN v.t -> "conf 'params' is missed"
      [] OTHER -> "conf 'location' and 'params' are missed"

\* C10 as stated, its last case: when every value of the config section, at
\* every depth, is a table holding both params and location, run_conf
\* succeeds and records an entry under the dotted path of every key.
C10_Original ==
    [][(pc = "run_conf" /\ \A e \in AllEntries(NoneS, t_config.t) : HasBoth(e.v)) =>
         /\ pc' = "check"
         /\ \A e \in AllEntries(NoneS, t_config.t) :
               e.prefix \o e.key \in DOMAIN conf']_vars

\* C10 as amended: run_conf fails at a key whose enclosing tables all
\* resolve, with "unexpected value" if its value is no table, with the
\* "missed" message for location, params or both if the table lacks them,
\* and with the decoder's error if both are there but location does not
\* decode; the error names that key and its dotted prefix.  Otherwise it
\* records an Active entry, with the decoded location, under the dotted path
\* of every key and nothing else, so that a path has an entry only if every
\* enclosing config table has one.
C10_Resolver ==
    [][pc = "run_conf" =>
         LET E == Entries(NoneS, t_config.t)
         IN  IF \A e \in E : Resolves(e.v)
             THEN /\ pc' = "check"
                  /\ DOMAIN conf' = {e.prefix \o e.key : e \in E}
                  /\ \A e \in E :
                       /\ conf'[e.prefix \o e.key].kind = "Active"
                       /\ e.prefix = NoneS \/ e.prefix \in DOMAIN conf'
                       /\ \E f \in E :
                            /\ f.prefix \o f.key = e.prefix \o e.key
                            /\ conf'[e.prefix \o e.key].location
                                 = DecodeLocation(f.v.t[<<"location">>])
             ELSE /\ pc' = "done"
                  /\ result'.kind = "Err"
                  /\ \E e \in E :
                       /\ ~Resolves(e.v)
                       /\ result'.err.parent
                            = (IF e.prefix = NoneS THEN EmptyString ELSE e.prefix)
                       /\ result'.err.name = e.key
                       /\ result'.err.error[1] = ExpectedError(e.v)]_vars

\* run_conf has resolved a config section three scopes deep, with a sibling.
C10_Witness ==
    /\ pc = "check"
    /\ <<"a", "b", "c">> \in DOMAIN conf
    /\ <<"a", "c">> \in DOMAIN conf

\* ---------------------------------------------------------------- C11
\* The dotted names the shape section refers to: its groups and their leaves.
ShapeNames(table) ==
    UNION {{g.prefix \o g.key}
           \cup {g.prefix \o g.key \o g.vs[j].s :
                   j \in {i \in DOMAIN g.vs : g.vs[i].kind = "String"}}
           : g \in ShapeGroups(NoneS, table)}

\* The paths an additional config entry is tried under.
ExtraPaths ==
    {<<"a">>, <<"b">>, <<"c">>, <<"a", "b">>, <<"a", "c">>, <<"b", "c">>,
     <<"a", "b", "c">>}

\* A well-formed entry as run_conf records it.
ExtraEntry(h, p) ==
    Active(toml_into_json(ParamsP), [host |-> h, port |-> p, publicity |-> NoneS])

\* C11: when a construction succeeds, the same construction with one more
\* entry in the resolved config map (well formed, its alias a key of hosts,
\* its (host, port) used by no other entry, its path named by no group or
\* leaf of the shape section) passes the location check, succeeds as well,
\* yields the same Topology and leaves the additional entry in the map.
C11_OrphanTolerated ==
    [][BuildSucceeds =>
         \A x \in (ExtraPaths \ DOMAIN conf) \ ShapeNames(t_root'.t) :
            \A h \in DOMAIN t_hosts :
               \A p \in 1..(MaxPort + 1) :
                  LET c == ExtraEntry(h, p)
                      more == MapInsert(conf, x, c)
                  IN  (\A y \in Located(conf) : BindingOf(conf[y]) # <<h, p>>) =>
                        /\ check_locations(t_hosts, more, DOMAIN more, EmptyMap)
                             = NoError
                        /\ LET r == run_root(NoneS, t_root'.t, more)
                           IN  /\ r.ok
                               /\ Topology(t_hosts, r.nodes) = result'.topology
                               /\ r.confs = MapInsert(conf', x, c)]_vars

\* A successful construction that built nodes and left in the map an entry
\* that neither a node nor a table of the shape section is named after.
C11_Witness ==
    /\ Succeeded
    /\ TreeNodes # {}
    /\ \E x \in DOMAIN conf :
         x \notin ShapeTablePaths(NoneS, t_root.t) \cup ShapeNames(t_root.t)

\* ---------------------------------------------------------------- C12
\* C12: after a successful construction, every child of the root is of kind
\* Node and every child of such a node is of kind Terminal and has no
\* children, however deep the tables of the shape section nest: no node lies
\* more than two levels below the root.
C12_TwoLevels ==
    Succeeded =>
        \A g \in SeqToSet(RootChildren) :
            /\ g.node_type.kind = "Node"
            /\ \A n \in SeqToSet(g.node_type.children) :
                 /\ n.node_type.kind = "Terminal"
                 /\ n.node_type.children = <<>>
                 /\ Descendants(n) = {}

\* A successful construction from a shape with a group declared two tables
\* deep: the group is a child of the root, its parent the dotted table path.
C12_Witness ==
    /\ Succeeded
    /\ \E g \in SeqToSet(RootChildren) : Len(g.parent) = 2
    /\ ShapeTablePaths(NoneS, t_root.t) # {}

====
